---- MODULE Spec2Model ----
(***************************************************************************)
(* Model comparison, ranking and versioning of trained models              *)
(* (server/model-comparison.ts), the routes of server/model-api.ts that    *)
(* call it, the metrics of a trained model (calculateMetrics of            *)
(* server/ml-models.ts) and the JSON database (server/json-db.ts) with its *)
(* asynchronous load and save.                                             *)
(*                                                                         *)
(* Numbers: the metrics are floats in the source.  Here rmse, mae and mape *)
(* are integers in an arbitrary fixed unit and r2 is an integer number of  *)
(* hundredths (r2 = 0.85 is 85), so that the thresholds 0.9, 0.7, 0.5 are  *)
(* 90, 70, 50.  Only comparisons, differences and ratios of metrics are    *)
(* taken, and these are exact on the values used.                          *)
(***************************************************************************)
EXTENDS Integers, Sequences, FiniteSets, TLC

VARIABLES
    op,        \* the operation applied last ("idle" before any)
    req,       \* the body of the request, for a route
    models,    \* the TrainedModel[] argument of the operation (for the
               \* operations on one or two models, the models in order)
    newModel,  \* the Partial<TrainedModel> argument of createModelVersion
    now,       \* the clock (Date.now())
    store,     \* the files of MODELS_DIR: id -> the record in <id>.json
    ret,       \* what the operation returned or threw, or the response
    db,        \* the in-memory cache of the JSON database (let db)
    dbFile,    \* DB_FILE, the database on disk
    loading,   \* where the loadDatabase() of the module load is
    saving,    \* the saveDatabase() calls that have not finished
    generated  \* how many ids generateId has made

vars == <<op, req, models, newModel, now, store, ret,
          db, dbFile, loading, saving, generated>>

\* The JSON database of server/json-db.
dbVars == <<db, dbFile, loading, saving, generated>>

\* let db = {datasets: [], sessions: [], messages: [], vectors: [], analysis: []}
EmptyDatabase ==
    [datasets |-> <<>>, sessions |-> <<>>, messages |-> <<>>,
     vectors |-> <<>>, analysis |-> <<>>]

\* The database is empty and at rest: nothing on disk, nothing in flight.
DatabaseAtRest ==
    /\ db = EmptyDatabase
    /\ dbFile = [exists |-> FALSE]
    /\ loading = [step |-> "done"]
    /\ saving = {}
    /\ generated = 0

\* ------------------------------------------------------------------ bounds

\* Longest list of models handed to compareModels.
MaxModels == 3

\* Largest version of a parent handed to createModelVersion.
MaxVersion == 3

\* Latest value of the clock.
MaxClock == 1

\* Longest model_ids list of a request.
MaxIds == 2

\* ------------------------------------------------------------- JS helpers

\* The indices of keys in the order Array.prototype.sort leaves them with the
\* comparator (a, b) => key(a) - key(b): ascending, and stable (ES2019), so
\* equal keys keep their relative order.
SortedIndices(keys) ==
    LET n == Len(keys)
        Pos(i) == Cardinality({j \in 1..n : \/ keys[j] < keys[i]
                                            \/ (keys[j] = keys[i] /\ j < i)}) + 1
    IN  [p \in 1..n |-> CHOOSE i \in 1..n : Pos(i) = p]

\* [...s].sort(cmp) for a comparator that subtracts the keys.
SortByKey(s, keys) ==
    LET idx == SortedIndices(keys)
    IN  [p \in 1..Len(s) |-> s[idx[p]]]

\* Array.prototype.indexOf: the 0-based index of the first element equal to
\* x, or -1.
IndexOf(s, x) ==
    IF \E i \in 1..Len(s) : s[i] = x
    THEN (CHOOSE i \in 1..Len(s) : s[i] = x /\ \A j \in 1..(i - 1) : s[j] /= x) - 1
    ELSE -1

\* Array.prototype.filter
RECURSIVE Filter(_, _)
Filter(s, keep) ==
    IF s = <<>> THEN <<>>
    ELSE (IF Head(s) \in keep THEN <<Head(s)>> ELSE <<>>) \o Filter(Tail(s), keep)

\* Math.round(n / d) for integers n >= 0, d > 0: floor(n/d + 1/2).
MathRoundDiv(n, d) == (2 * n + d) \div (2 * d)

Ids(s) == [i \in 1..Len(s) |-> s[i].id]

Abs(x) == IF x < 0 THEN 0 - x ELSE x

Max(a, b) == IF a > b THEN a ELSE b

\* The JS number NaN, kept apart from every number the model computes with.
NaN == -1

\* The JS value null where a number is expected (what JSON.parse gives for a
\* number that was written as NaN).
Null == -2

\* x + 1 where x is a property of a record that may be missing:
\* undefined + 1 and NaN + 1 are NaN, null + 1 is 1.
PlusOne(rec, field) ==
    IF field \notin DOMAIN rec \/ rec[field] = NaN THEN NaN
    ELSE IF rec[field] = Null THEN 1
    ELSE rec[field] + 1

\* `${x}` of a number
NumberText(x) == IF x = NaN THEN "NaN" ELSE ToString(x)

\* An object with no properties.
NoFields == <<>>

\* The value of a property that is set to undefined (where a string is
\* expected).
Undefined == "undefined (no value)"

\* rec without the property field.
Without(rec, field) == [f \in DOMAIN rec \ {field} |-> rec[f]]

\* JSON.parse(JSON.stringify(model)) for a model record: a description that
\* is undefined is dropped and a version that is NaN comes back as null.
JsonForm(rec) ==
    LET defined == IF "description" \in DOMAIN rec /\ rec.description = Undefined
                   THEN Without(rec, "description") ELSE rec
    IN  IF "version" \in DOMAIN defined /\ defined.version = NaN
        THEN [version |-> Null] @@ defined
        ELSE defined

\* m.metrics.mape != null
HasMape(m) == "mape" \in DOMAIN m.metrics

\* ------------------------------------------------- generateRecommendations

SeqMin(s) == CHOOSE x \in {s[i] : i \in 1..Len(s)} : \A i \in 1..Len(s) : x <= s[i]

SeqMax(s) == CHOOSE x \in {s[i] : i \in 1..Len(s)} : \A i \in 1..Len(s) : x >= s[i]

RECURSIVE SeqSum(_)
SeqSum(s) == IF s = <<>> THEN 0 ELSE Head(s) + SeqSum(Tail(s))

\* The thresholds compared with >=: r2 of exactly 0.9, 0.7 or 0.5 falls in
\* the upper bucket.
R2BucketInclusive(r2) ==
    IF r2 >= 90 THEN "excellent_fit"
    ELSE IF r2 >= 70 THEN "good_fit"
    ELSE IF r2 >= 50 THEN "moderate_fit"
    ELSE "poor_fit"

\* The R² bucket of the best model, first match wins (r2 in hundredths).
R2Bucket(r2) ==
    IF r2 > 90 THEN "excellent_fit"
    ELSE IF r2 > 70 THEN "good_fit"
    ELSE IF r2 > 50 THEN "moderate_fit"
    ELSE "poor_fit"

\* ((worst - best) / worst * 100).toFixed(1), in tenths of a percent: the
\* nearest tenth, a half rounding up.  Only called with worst > 0.
RmseImprovementTenths(best_rmse, worst_rmse) ==
    (2000 * (worst_rmse - best_rmse) + worst_rmse) \div (2 * worst_rmse)

\* parseFloat(rmse_improvement) > 10; with worst_rmse = 0 the quotient is NaN
\* and the comparison is false.
SignificantImprovement(best_rmse, worst_rmse) ==
    worst_rmse /= 0 /\ RmseImprovementTenths(best_rmse, worst_rmse) > 100

\* The chain without the tests of the best model's type in its first two
\* branches: a polynomial or random forest model anywhere in the list decides.
TypeSignalOfAnyModel(types, best_type) ==
    IF "polynomial" \in types THEN "non_linear_relationship"
    ELSE IF "random_forest" \in types THEN "complex_patterns"
    ELSE IF best_type = "linear" THEN "linear_relationship"
    ELSE "none"

\* The model-type message, or "none" when no branch of the if/else-if chain
\* is taken.
TypeSignal(types, best_type) ==
    IF "polynomial" \in types /\ best_type = "polynomial" THEN "non_linear_relationship"
    ELSE IF "random_forest" \in types /\ best_type = "random_forest" THEN "complex_patterns"
    ELSE IF best_type = "linear" THEN "linear_relationship"
    ELSE "none"

MapeBucket(mape) ==
    IF mape < 10 THEN "high_accuracy"
    ELSE IF mape < 20 THEN "good_accuracy"
    ELSE "moderate_accuracy"

\* standardDeviation(values) > 0.1 for values in hundredths: the population
\* variance (n * sum(x^2) - sum(x)^2) / n^2 exceeds 100 hundredths squared.
HighVariance(values) ==
    LET n == Len(values)
        sq == [i \in 1..n |-> values[i] * values[i]]
    IN  n * SeqSum(sq) - SeqSum(values) * SeqSum(values) > 100 * n * n

generateRecommendations(ms, comparison_table, best_model) ==
    LET rmses == [i \in 1..Len(ms) |-> ms[i].metrics.rmse]
        best_rmse == SeqMin(rmses)
        worst_rmse == SeqMax(rmses)
        model_types == {ms[i].type : i \in 1..Len(ms)}
        signal == TypeSignal(model_types, best_model.type)
        same_type_models ==
            Filter(ms, {m \in {ms[i] : i \in 1..Len(ms)} : m.type = best_model.type})
        same_type_r2 ==
            [i \in 1..Len(same_type_models) |-> same_type_models[i].metrics.r2]
    IN  <<[msg |-> "best_overall", name |-> best_model.name,
           type |-> best_model.type, r2 |-> best_model.metrics.r2]>>
        \o <<[msg |-> R2Bucket(best_model.metrics.r2)]>>
        \o (IF SignificantImprovement(best_rmse, worst_rmse)
            THEN <<[msg |-> "significant_improvement",
                    tenths |-> RmseImprovementTenths(best_rmse, worst_rmse)]>>
            ELSE <<>>)
        \o (IF signal /= "none" THEN <<[msg |-> signal]>> ELSE <<>>)
        \o (IF HasMape(best_model)
            THEN <<[msg |-> MapeBucket(best_model.metrics.mape)]>>
            ELSE <<>>)
        \o (IF Len(same_type_models) > 1 /\ HighVariance(same_type_r2)
            THEN <<[msg |-> "high_variance"]>>
            ELSE <<>>)

\* ------------------------------------------------------------ compareModels

\* (m.metrics.mape || 0)
MapeOrZero(m) == IF HasMape(m) /\ m.metrics.mape /= 0 THEN m.metrics.mape ELSE 0

\* if (!models): an empty array is truthy, so the guard never fires.
NoModelsTruthyTest(ms) == FALSE

\* models.length <= 1: the guard also rejects a single model.
NoModelsOrOne(ms) == Len(ms) <= 1

\* models.length === 0
NoModels(ms) == Len(ms) = 0

RankingByRmse(ms) == Ids(SortByKey(ms, [i \in 1..Len(ms) |-> ms[i].metrics.rmse]))

RankingByMae(ms) == Ids(SortByKey(ms, [i \in 1..Len(ms) |-> ms[i].metrics.mae]))

\* (a, b) => a.metrics.r2 - b.metrics.r2: r2 sorted like the error metrics.
RankingByR2Ascending(ms) ==
    Ids(SortByKey(ms, [i \in 1..Len(ms) |-> ms[i].metrics.r2]))

\* (a, b) => b.metrics.r2 - a.metrics.r2: ascending in -r2.
RankingByR2(ms) == Ids(SortByKey(ms, [i \in 1..Len(ms) |-> 0 - ms[i].metrics.r2]))

\* by_mape without the filter: every model, a missing mape counted as 0.
RankingByMapeUnfiltered(ms) ==
    Ids(SortByKey(ms, [i \in 1..Len(ms) |-> MapeOrZero(ms[i])]))

RankingByMape(ms) ==
    LET withMape == Filter(ms, {m \in {ms[i] : i \in 1..Len(ms)} : HasMape(m)})
    IN  Ids(SortByKey(withMape, [i \in 1..Len(withMape) |-> MapeOrZero(withMape[i])]))

\* by.indexOf(model.id): the 0-based position taken as the rank.
RankInZeroBased(by, id) == IndexOf(by, id)

\* by.indexOf(model.id) + 1
RankIn(by, id) == IndexOf(by, id) + 1

\* Math.floor((rank_rmse + rank_mae + rank_r2) / 3)
RankOverallFloor(rank_rmse, rank_mae, rank_r2) ==
    (rank_rmse + rank_mae + rank_r2) \div 3

\* Math.round((rank_rmse + rank_mae + rank_r2) / 3)
RankOverall(rank_rmse, rank_mae, rank_r2) ==
    MathRoundDiv(rank_rmse + rank_mae + rank_r2, 3)

\* One row of comparison_table; mape is carried only when the model has it
\* (an undefined property is dropped when the result is serialised).
ComparisonRow(m, by_rmse, by_mae, by_r2) ==
    LET rank_rmse == RankIn(by_rmse, m.id)
        rank_mae  == RankIn(by_mae, m.id)
        rank_r2   == RankIn(by_r2, m.id)
        row == [id |-> m.id, name |-> m.name, type |-> m.type,
                rmse |-> m.metrics.rmse, mae |-> m.metrics.mae, r2 |-> m.metrics.r2,
                rank_rmse |-> rank_rmse, rank_mae |-> rank_mae, rank_r2 |-> rank_r2,
                rank_overall |-> RankOverall(rank_rmse, rank_mae, rank_r2)]
    IN  IF HasMape(m) THEN row @@ [mape |-> m.metrics.mape] ELSE row

\* comparison_table.sort((a, b) => b.rank_overall - a.rank_overall)
SortTableDescending(rows) ==
    SortByKey(rows, [i \in 1..Len(rows) |-> 0 - rows[i].rank_overall])

\* A sort that is not stable: rows of equal rank_overall come out in the
\* opposite of their input order.
SortTableTiesReversed(rows) ==
    LET backwards == [i \in 1..Len(rows) |-> rows[Len(rows) + 1 - i]]
    IN  SortByKey(backwards, [i \in 1..Len(rows) |-> backwards[i].rank_overall])

\* comparison_table.sort((a, b) => a.rank_overall - b.rank_overall)
SortTable(rows) == SortByKey(rows, [i \in 1..Len(rows) |-> rows[i].rank_overall])

\* models.find(m => m.id === id)
FindModel(ms, id) == ms[IndexOf(Ids(ms), id) + 1]

compareModels(ms) ==
    IF NoModels(ms)
    THEN [threw |-> TRUE, error |-> "No models to compare"]
    ELSE LET by_rmse == RankingByRmse(ms)
             by_mae  == RankingByMae(ms)
             by_r2   == RankingByR2(ms)
             by_mape == RankingByMape(ms)
             comparison_table ==
                 SortTable([i \in 1..Len(ms) |->
                               ComparisonRow(ms[i], by_rmse, by_mae, by_r2)])
         IN  IF Len(comparison_table) = 0
             THEN \* comparison_table[0].id on an empty table
                  [threw |-> TRUE, error |-> "TypeError"]
             ELSE LET best_overall == comparison_table[1].id
                      best_model == FindModel(ms, best_overall)
                  IN  [threw |-> FALSE,
                       models |-> ms,
                       rankings |-> [by_rmse |-> by_rmse, by_mae |-> by_mae,
                                     by_r2 |-> by_r2, by_mape |-> by_mape],
                       best_overall |-> best_overall,
                       comparison_table |-> comparison_table,
                       recommendations |->
                           generateRecommendations(ms, comparison_table, best_model)]

\* models.sort(cmp): the array that is passed in is itself sorted.
ArrayAfterSortInPlace(ms, keys) == SortByKey(ms, keys)

\* [...models].sort(cmp): the copy is sorted and models keeps its order.
ArrayAfterSortedCopy(ms, keys) == ms

\* The array models as compareModels(models) leaves it: the three sorts work
\* on copies, filter, map and find build new values, and the table that is
\* sorted in place is the function's own.
ModelsAfterCompareModels(ms) ==
    IF NoModels(ms) THEN ms
    ELSE LET a == ArrayAfterSortedCopy(ms, [i \in 1..Len(ms) |-> ms[i].metrics.rmse])
             b == ArrayAfterSortedCopy(a, [i \in 1..Len(a) |-> a[i].metrics.mae])
         IN  ArrayAfterSortedCopy(b, [i \in 1..Len(b) |-> 0 - b[i].metrics.r2])

\* --------------------------------------------------------- compareTwoModels

\* |v1 - v2| / denom * 100 as a fraction num / den of percent; 0 / 0 is NaN.
\* (denom is never 0 with v1 /= v2 for the denominators of the source.)
Improvement(v1, v2, denom) ==
    IF denom = 0 THEN [nan |-> TRUE]
    ELSE [nan |-> FALSE, num |-> 100 * Abs(v1 - v2), den |-> denom]

\* ((rmse + mae + r2 improvement) / 3).toFixed(1) in tenths of a percent
\* (the nearest tenth, a half rounding up), or NaN when a term is NaN.
AverageImprovementTenths(a, b, c) ==
    IF a.nan \/ b.nan \/ c.nan THEN [nan |-> TRUE]
    ELSE LET n == a.num * b.den * c.den + b.num * a.den * c.den + c.num * a.den * b.den
             d == a.den * b.den * c.den
         IN  [nan |-> FALSE, tenths |-> (20 * n + 3 * d) \div (6 * d)]

\* model1.metrics.x < model2.metrics.x ? model1.id : model2.id
LowerWins(v1, v2, id1, id2) == IF v1 < v2 THEN id1 ELSE id2

\* model1.metrics.r2 > model2.metrics.r2 ? model1.id : model2.id
HigherWins(v1, v2, id1, id2) == IF v1 > v2 THEN id1 ELSE id2

\* wins = {[model1.id]: 0, [model2.id]: 0} after wins[comp.winner]++ for the
\* three comparisons.
CountWins(winners, id1, id2) ==
    [id \in {id1, id2} |-> Cardinality({k \in DOMAIN winners : winners[k] = id})]

\* wins[model1.id] < wins[model2.id] ? model1.id : model2.id
PairWinnerFewest(wins, id1, id2) == IF wins[id1] < wins[id2] THEN id1 ELSE id2

\* wins[model1.id] > 0 ? model1.id : model2.id
PairWinnerFirstWithAWin(wins, id1, id2) == IF wins[id1] > 0 THEN id1 ELSE id2

\* wins[model1.id] > wins[model2.id] ? model1.id : model2.id
PairWinner(wins, id1, id2) == IF wins[id1] > wins[id2] THEN id1 ELSE id2

compareTwoModels(model1, model2) ==
    LET m1 == model1.metrics
        m2 == model2.metrics
        metrics_comparison ==
            [rmse |-> [model1 |-> m1.rmse, model2 |-> m2.rmse,
                       winner |-> LowerWins(m1.rmse, m2.rmse, model1.id, model2.id)],
             mae  |-> [model1 |-> m1.mae, model2 |-> m2.mae,
                       winner |-> LowerWins(m1.mae, m2.mae, model1.id, model2.id)],
             r2   |-> [model1 |-> m1.r2, model2 |-> m2.r2,
                       winner |-> HigherWins(m1.r2, m2.r2, model1.id, model2.id)]]
        improvement_percentage ==
            [rmse |-> Improvement(m1.rmse, m2.rmse, Max(m1.rmse, m2.rmse)),
             mae  |-> Improvement(m1.mae, m2.mae, Max(m1.mae, m2.mae)),
             r2   |-> Improvement(m1.r2, m2.r2, Max(Abs(m1.r2), Abs(m2.r2)))]
        wins == CountWins([k \in DOMAIN metrics_comparison |->
                              metrics_comparison[k].winner], model1.id, model2.id)
        winner == PairWinner(wins, model1.id, model2.id)
        winner_model == IF winner = model1.id THEN model1 ELSE model2
    IN  [threw |-> FALSE,
         winner |-> winner,
         metrics_comparison |-> metrics_comparison,
         improvement_percentage |-> improvement_percentage,
         summary |-> [name |-> winner_model.name, type |-> winner_model.type,
                      wins |-> wins[winner],
                      average |-> AverageImprovementTenths(improvement_percentage.rmse,
                                                           improvement_percentage.mae,
                                                           improvement_percentage.r2)]]

\* ------------------------------------------------------- createModelVersion

\* {...parentModel, id, version, parent_id, trainedAt, ...newModel}: the
\* overrides spread last.
createModelVersionOverridesLast(parentModel, newModel_, t) ==
    LET version == PlusOne(parentModel, "version")
    IN  newModel_
        @@ [id |-> IF "id" \in DOMAIN newModel_ /\ newModel_.id /= ""
                   THEN newModel_.id
                   ELSE parentModel.id \o "_v" \o NumberText(version),
            version |-> version,
            parent_id |-> parentModel.id,
            trainedAt |-> t]
        @@ parentModel

createModelVersionParentLast(parentModel, newModel_, t) ==
    LET version == PlusOne(parentModel, "version")
    IN  [id |-> IF "id" \in DOMAIN newModel_ /\ newModel_.id /= ""
                THEN newModel_.id
                ELSE parentModel.id \o "_v" \o NumberText(version),
         version |-> version,
         parent_id |-> parentModel.id,
         trainedAt |-> t]
        @@ parentModel @@ newModel_

\* {...parentModel, ...newModel, id, version, parent_id, trainedAt}: a later
\* property wins, so f @@ g (f wins) is written in the reverse order.
createModelVersion(parentModel, newModel_, t) ==
    LET version == PlusOne(parentModel, "version")
    IN  [id |-> IF "id" \in DOMAIN newModel_ /\ newModel_.id /= ""
                THEN newModel_.id
                ELSE parentModel.id \o "_v" \o NumberText(version),
         version |-> version,
         parent_id |-> parentModel.id,
         trainedAt |-> t]
        @@ newModel_ @@ parentModel

\* -------------------------------------------------- getModelVersionHistory

\* new Map(models.map(m => [m.id, m])): of two records with one id the later
\* replaces the earlier.
ModelMap(ms) ==
    [id \in {ms[i].id : i \in 1..Len(ms)} |->
        ms[CHOOSE i \in 1..Len(ms) :
              ms[i].id = id /\ \A j \in (i + 1)..Len(ms) : ms[j].id /= id]]

\* if (current.parent_id): the property is there and is not the empty string.
HasParent(m) == "parent_id" \in DOMAIN m /\ m.parent_id /= ""

\* versions.push(current): the record goes to the end.
UnshiftAsPush(versions, current) == Append(versions, current)

\* versions.unshift(current)
Unshift(versions, current) == <<current>> \o versions

\* modelMap.get(id) of an id that is not a key throws.
LookupMissThrows(versions) == [threw |-> TRUE, error |-> "Model not found"]

\* modelMap.get(id) is undefined: the loop ends and what was collected is
\* returned.
LookupMiss(versions) == [threw |-> FALSE, value |-> versions]

\* The while loop, entered with current = modelMap.get(id).  Each pass
\* visits one record; after more passes than there are records some record
\* has been visited twice, the parent_id chain is a cycle and the loop never
\* ends (versions grows until the allocation fails).
RECURSIVE WalkParents(_, _, _, _)
WalkParents(modelMap, id, versions, passes) ==
    IF id \notin DOMAIN modelMap THEN LookupMiss(versions)
    ELSE IF passes = 0 THEN [threw |-> TRUE, error |-> "loop without end"]
    ELSE LET current == modelMap[id]
             collected == Unshift(versions, current)
         IN  IF HasParent(current)
             THEN WalkParents(modelMap, current.parent_id, collected, passes - 1)
             ELSE [threw |-> FALSE, value |-> collected]

getModelVersionHistory(ms, modelId) ==
    LET modelMap == ModelMap(ms)
    IN  WalkParents(modelMap, modelId, <<>>, Cardinality(DOMAIN modelMap))

\* ------------------------------------------------------------------ inputs

ModelId(i) == "m" \o ToString(i)

Metrics(rmse, mae, r2) == [rmse |-> rmse, mae |-> mae, r2 |-> r2]

\* The same metrics with mape defined.
WithMape(metrics, mape) == metrics @@ [mape |-> mape]

\* A root model as the trainers of ml-models.ts build it; the fields the
\* comparison never reads (model, featureNames, targetName, datasetId) are
\* left out.
TrainedModel(id, type, metrics) ==
    [id |-> id, name |-> "model " \o id, type |-> type, metrics |-> metrics,
     trainedAt |-> 0, version |-> 1]

\* Ranking inputs: three values of each metric, so that three models can be
\* pairwise different, or tied, on every metric.
RankMetrics == {Metrics(a, b, c) : a \in {3, 4, 5}, b \in {2, 3, 4}, c \in {60, 75, 85}}

\* Two values of each metric, for the lists of more than three models (the
\* lists over RankMetrics are too many to enumerate beyond three).
CoarseMetrics == {Metrics(a, b, c) : a \in {3, 5}, b \in {2, 4}, c \in {60, 85}}

\* Lists of n models with pairwise distinct ids, the i-th named ModelId(i),
\* none with mape.
RankInputs(n) ==
    {[i \in 1..n |-> TrainedModel(ModelId(i), "linear", f[i])] :
        f \in [1..n -> IF n <= 3 THEN RankMetrics ELSE CoarseMetrics]}

\* MAPE inputs: models with and without mape (0 included: it is falsy in
\* (mape || 0)), over two values of rmse.
MapeMetrics ==
    LET base == {Metrics(a, 2, 75) : a \in {3, 5}}
    IN  base \cup {WithMape(b, p) : b \in base, p \in {0, 8, 25}}

MapeInputs(n) ==
    {[i \in 1..n |-> TrainedModel(ModelId(i), "linear", f[i])] :
        f \in [1..n -> MapeMetrics]}

\* Inputs in which an id may repeat (the list a caller builds from a list of
\* ids that names a model twice, or from two records stored under one id).
RepeatMetrics == {Metrics(a, b, 75) : a \in {3, 5}, b \in {2, 4}}

RepeatInputs(n) ==
    {[i \in 1..n |-> TrainedModel(ModelId(g[i]), "linear", f[i])] :
        g \in [1..n -> 1..2], f \in [1..n -> RepeatMetrics]}

\* Inputs around the thresholds of the R² message: r2 at and just above 0.5,
\* 0.7 and 0.9.
BucketMetrics == {Metrics(3, 2, c) : c \in {50, 51, 70, 71, 90, 91}}

BucketInputs(n) ==
    IF n > 2 THEN {}
    ELSE {[i \in 1..n |-> TrainedModel(ModelId(i), "linear", f[i])] :
             f \in [1..n -> BucketMetrics]}

\* Inputs around the threshold of the RMSE message: pairs of rmse whose
\* relative difference is 0, 10%, just above 10% (10.04%, 10.1%) and far
\* above; rmse 0 for every model makes the quotient 0 / 0.
ImprovementMetrics ==
    {Metrics(a, 2, 75) : a \in {0, 899, 900, 1000, 1800, 2001}}

ImprovementInputs(n) ==
    IF n > 3 THEN {}
    ELSE {[i \in 1..n |-> TrainedModel(ModelId(i), "linear", f[i])] :
             f \in [1..n -> ImprovementMetrics]}

\* Inputs of every type a stored record may carry: the three regression
\* types and, for a record that was imported or derived with a type of its
\* own, a classification type with regression metrics.
ModelTypes == {"linear", "polynomial", "random_forest", "logistic_regression"}

TypedMetrics == {Metrics(3, 2, 85), Metrics(5, 4, 60)}

TypedInputs(n) ==
    IF n > 3 THEN {}
    ELSE {[i \in 1..n |-> TrainedModel(ModelId(i), t[i], f[i])] :
             t \in [1..n -> ModelTypes], f \in [1..n -> TypedMetrics]}

CompareInputs(n) ==
    RankInputs(n) \cup MapeInputs(n) \cup RepeatInputs(n)
    \cup BucketInputs(n) \cup ImprovementInputs(n) \cup TypedInputs(n)

\* ----------------------------------------------------------------- actions

Idle == [threw |-> FALSE]

CompareModels ==
    /\ op = "idle"
    /\ op' = "compareModels"
    /\ ret' = compareModels(models)
    /\ models' = ModelsAfterCompareModels(models)
    /\ UNCHANGED <<req, newModel, now, store>>
    /\ UNCHANGED dbVars

InitCompare ==
    /\ op = "idle"
    /\ ret = Idle
    /\ req = NoFields
    /\ newModel = NoFields
    /\ now = 0
    /\ store = NoFields
    /\ \E n \in 0..MaxModels : models \in CompareInputs(n)
    /\ DatabaseAtRest

NextCompare == CompareModels

SpecCompare == InitCompare /\ [][NextCompare]_vars

\* Pairs of models for compareTwoModels: the second may carry the id of the
\* first; the metrics include 0 and a negative r2.
PairMetrics ==
    {Metrics(a, b, c) : a \in {0, 3, 5}, b \in {0, 2, 4}, c \in {-20, 0, 60, 85}}

PairInputs ==
    {<<TrainedModel(ModelId(1), "linear", f), TrainedModel(ModelId(i), "polynomial", g)>> :
        i \in 1..2, f \in PairMetrics, g \in PairMetrics}

CompareTwoModels ==
    /\ op = "idle"
    /\ Len(models) = 2
    /\ op' = "compareTwoModels"
    /\ ret' = compareTwoModels(models[1], models[2])
    /\ UNCHANGED <<req, models, newModel, now, store>>
    /\ UNCHANGED dbVars

InitPair ==
    /\ op = "idle"
    /\ ret = Idle
    /\ req = NoFields
    /\ newModel = NoFields
    /\ now = 0
    /\ store = NoFields
    /\ models \in PairInputs
    /\ DatabaseAtRest

NextPair == CompareTwoModels

SpecPair == InitPair /\ [][NextPair]_vars

\* The records recs, and each of them with the property field added, for
\* every value of vals.
Optional(recs, field, vals) ==
    recs \cup {[f \in {field} |-> v] @@ r : r \in recs, v \in vals}

\* Parents for createModelVersion: roots and children, of version
\* 1..MaxVersion or (as the regression trainers build them) with no version.
ParentModels ==
    LET root == [id |-> ModelId(1), name |-> "model", type |-> "linear",
                 metrics |-> Metrics(5, 4, 60), trainedAt |-> 0]
    IN  Optional(Optional(Optional({root},
            "version", 1..MaxVersion),
            "parent_id", {ModelId(0)}),
            "description", {"first"})

\* The overrides: any subset of these properties ("" is an id that counts
\* as not supplied).
Overrides ==
    Optional(Optional(Optional(Optional(Optional(Optional({NoFields},
        "id", {"", "custom"}),
        "version", {1, 7}),
        "parent_id", {"other"}),
        "trainedAt", {0}),
        "description", {"retrained"}),
        "metrics", {Metrics(3, 2, 85)})

CreateModelVersion ==
    /\ op = "idle"
    /\ Len(models) = 1
    /\ op' = "createModelVersion"
    /\ ret' = [threw |-> FALSE, value |-> createModelVersion(models[1], newModel, now)]
    /\ UNCHANGED <<req, models, newModel, now, store>>
    /\ UNCHANGED dbVars

InitVersion ==
    /\ op = "idle"
    /\ ret = Idle
    /\ req = NoFields
    /\ store = NoFields
    /\ \E parent \in ParentModels : models = <<parent>>
    /\ newModel \in Overrides
    /\ now \in 1..MaxClock
    /\ DatabaseAtRest

NextVersion == CreateModelVersion

SpecVersion == InitVersion /\ [][NextVersion]_vars

\* ------------------------------------------------------------------ routes

\* `model-${Date.now()}`
TrainId(t) == "model-" \o ToString(t)

\* The metrics calculateMetrics returns for a test set: mape is always
\* computed.
TrainMetrics == {WithMape(Metrics(5, 4, 60), 12), WithMape(Metrics(3, 2, 85), 7)}

RegressionTypes == {"linear", "polynomial", "random_forest"}

\* The record trainLinearRegression, trainPolynomialRegression and
\* trainRandomForest build: no version, no parent_id.
TrainRegression(type, metrics, t) ==
    [id |-> TrainId(t), name |-> type, type |-> type, metrics |-> metrics,
     trainedAt |-> t]

\* `model_${Date.now()}`
ClassificationId(t) == "model_" \o ToString(t)

\* The metrics calculateClassificationMetrics returns (in hundredths); the
\* confusion matrix and the class labels are left out.
ClassificationMetrics ==
    {[accuracy |-> 90, precision |-> 88, recall |-> 86, f1_score |-> 87]}

ClassificationTypes == {"logistic_regression", "random_forest_classifier"}

\* The record trainLogisticRegression and trainRandomForestClassifier build:
\* version 1, no parent_id.
TrainClassification(type, metrics, t) ==
    [id |-> ClassificationId(t), name |-> type, type |-> type, metrics |-> metrics,
     trainedAt |-> t, version |-> 1]

\* fs.writeFile(path.join(MODELS_DIR, `${id}.json`), JSON.stringify(model)):
\* creates the file or replaces its content; a later JSON.parse of the file
\* gives JsonForm(model).
WriteFile(files, id, record) ==
    [f \in DOMAIN files \cup {id} |-> IF f = id THEN JsonForm(record) ELSE files[f]]

\* Most files of MODELS_DIR.
MaxStored == 2

\* The write creates no file beyond the most the model keeps.
WithinStore(files, id) == id \in DOMAIN files \/ Cardinality(DOMAIN files) < MaxStored

\* The metrics of the model trained on the data set of the request: one
\* outcome for each model type.
TestSetMetrics(type) ==
    IF type = "linear" THEN WithMape(Metrics(5, 4, 60), 12)
    ELSE WithMape(Metrics(3, 2, 85), 7)

\* The model the trainer of this model type builds.
Train(type, t) ==
    IF type \in RegressionTypes
    THEN TrainRegression(type, TestSetMetrics(type), t)
    ELSE TrainClassification(type, CHOOSE m \in ClassificationMetrics : TRUE, t)

\* The bodies of POST /train.  complete: dataset_id and target_column are
\* there; found: getDataset(dataset_id) finds the data set.
TrainBodies ==
    {[complete |-> FALSE, found |-> FALSE, model_type |-> "linear"],
     [complete |-> TRUE, found |-> FALSE, model_type |-> "linear"]}
    \cup {[complete |-> TRUE, found |-> TRUE, model_type |-> type] :
            type \in RegressionTypes \cup ClassificationTypes \cup {"auto", "other"}}

\* POST /train.
\* With model_type "auto" the models are trained and returned, none is saved.
PostTrain ==
    /\ op = "idle"
    /\ op' = "POST /train"
    /\ \E body \in TrainBodies :
          LET complete == body.complete
              found == body.found
              type == body.model_type
          IN
          /\ req' = body
          /\ IF ~complete
             THEN /\ ret' = [status |-> 400,
                             error |-> "dataset_id and target_column are required"]
                  /\ UNCHANGED store
             ELSE IF ~found
             THEN /\ ret' = [status |-> 404, error |-> "Dataset not found"]
                  /\ UNCHANGED store
             ELSE IF type = "auto"
             THEN /\ ret' = [status |-> 200]
                  /\ UNCHANGED store
             ELSE IF type \notin RegressionTypes \cup ClassificationTypes
             THEN /\ ret' = [status |-> 400, error |-> "Unknown model type"]
                  /\ UNCHANGED store
             ELSE LET model == Train(type, now)
                  IN  /\ WithinStore(store, model.id)
                      /\ store' = WriteFile(store, model.id, model)
                      /\ ret' = [status |-> 200, data |-> JsonForm(model)]
    /\ UNCHANGED <<models, newModel, now>>
    /\ UNCHANGED dbVars

\* Largest version of a stored record.
MaxStoredVersion == 2

\* The bodies of POST /versions/:model_id: the overrides of the new version,
\* with or without an id (of a model that may be stored already).
VersionBodies == {NoFields, [id |-> TrainId(0)]}

\* {...newModelData, description}: description is a property of the
\* overrides whether or not the body has one.
VersionOverrides(body) ==
    [description |-> IF "description" \in DOMAIN body
                     THEN body.description ELSE Undefined]
    @@ Without(body, "description")

\* POST /versions/:model_id: the parent is read from its file, the new
\* version is built and written to the file named by its id.
PostVersions ==
    /\ op = "idle"
    /\ op' = "POST /versions"
    /\ \E model_id \in DOMAIN store \cup {TrainId(MaxClock)}, body \in VersionBodies :
          /\ req' = [model_id |-> model_id, body |-> body]
          /\ IF model_id \notin DOMAIN store
             THEN \* fs.readFile rejects
                  /\ ret' = [status |-> 500, error |-> "ENOENT"]
                  /\ UNCHANGED <<models, newModel, store>>
             ELSE LET parentModel == store[model_id]
                      overrides == VersionOverrides(body)
                      newVersion == createModelVersion(parentModel, overrides, now)
                  IN  /\ WithinStore(store, newVersion.id)
                      /\ newVersion.version = NaN \/ newVersion.version <= MaxStoredVersion
                      /\ models' = <<parentModel>>
                      /\ newModel' = overrides
                      /\ store' = WriteFile(store, newVersion.id, newVersion)
                      /\ ret' = [status |-> 200, data |-> JsonForm(newVersion)]
    /\ UNCHANGED now
    /\ UNCHANGED dbVars

\* The bodies of POST /compare: no model_ids, an array of ids, or a value
\* with a length that is not an array.
CompareBodies ==
    {NoFields, [model_ids |-> <<TrainId(0), TrainId(0)>>, is_array |-> FALSE]}
    \cup {[model_ids |-> ids, is_array |-> TRUE] :
            ids \in UNION {[1..n -> {TrainId(0), TrainId(MaxClock)}] : n \in 0..MaxIds}}

\* model_ids.length < 1
TooFewIdsEmptyOnly(body) ==
    \/ "model_ids" \notin DOMAIN body
    \/ ~body.is_array
    \/ Len(body.model_ids) < 1

\* !model_ids || !Array.isArray(model_ids) || model_ids.length < 2
TooFewIds(body) ==
    \/ "model_ids" \notin DOMAIN body
    \/ ~body.is_array
    \/ Len(body.model_ids) < 2

\* The loop that reads <id>.json for each id in turn: the models read, and
\* the first id with no file (or "" when every file is there).
LoadModels(files, ids) ==
    LET missing == {i \in 1..Len(ids) : ids[i] \notin DOMAIN files}
        stop == IF missing = {} THEN Len(ids) + 1
                ELSE CHOOSE i \in missing : \A k \in missing : i <= k
    IN  [models |-> [i \in 1..(stop - 1) |-> files[ids[i]]],
         missing |-> IF missing = {} THEN "" ELSE ids[stop]]

\* m.metrics has the regression metrics (a model of a classification trainer
\* has accuracy, precision, recall and f1_score instead).
HasRegressionMetrics(m) == {"rmse", "mae", "r2"} \subseteq DOMAIN m.metrics

\* What compareModels does with the models ms.  On models without rmse, mae
\* and r2 every comparator returns NaN and best_model.metrics.r2.toFixed
\* throws a TypeError.  On a list that mixes the two kinds the comparators
\* are inconsistent, the sorted order is implementation-defined, and either
\* the TypeError is thrown or a result comes back whose order is not
\* determined.
CompareOutcomes(ms) ==
    IF \A i \in 1..Len(ms) : HasRegressionMetrics(ms[i]) THEN {compareModels(ms)}
    ELSE IF \A i \in 1..Len(ms) : ~HasRegressionMetrics(ms[i])
    THEN {[threw |-> TRUE, error |-> "TypeError"]}
    ELSE {[threw |-> TRUE, error |-> "TypeError"],
          [threw |-> FALSE, models |-> ms]}

PostCompare ==
    /\ op = "idle"
    /\ op' = "POST /compare"
    /\ \E body \in CompareBodies :
          /\ req' = body
          /\ IF TooFewIds(body)
             THEN /\ ret' = [status |-> 400,
                             error |-> "At least 2 model IDs are required for comparison"]
                  /\ models' = <<>>
             ELSE LET loaded == LoadModels(store, body.model_ids)
                  IN  IF loaded.missing /= ""
                      THEN /\ ret' = [status |-> 404,
                                      error |-> "Model not found: " \o loaded.missing]
                           /\ models' = loaded.models
                      ELSE /\ models' = loaded.models
                           /\ \E comparison \in CompareOutcomes(loaded.models) :
                                 ret' = IF comparison.threw
                                        THEN [status |-> 500, error |-> comparison.error]
                                        ELSE [status |-> 200, data |-> comparison]
    /\ UNCHANGED <<newModel, now, store>>
    /\ UNCHANGED dbVars

\* The bodies of POST /models/import: nothing, or a model exported earlier;
\* parameters: body.model, the learned parameters, is there.
ImportBodies ==
    {[body |-> NoFields, parameters |-> FALSE]}
    \cup {[body |-> TrainRegression("linear", TestSetMetrics("linear"), 0),
            parameters |-> p] : p \in BOOLEAN}

\* !model.id || !model.type || !model.model
InvalidModelFormat(upload) ==
    \/ "id" \notin DOMAIN upload.body
    \/ upload.body.id = ""
    \/ "type" \notin DOMAIN upload.body
    \/ upload.body.type = ""
    \/ ~upload.parameters

\* model.id = `model-${Date.now()}`
ImportedModel(body, t) == [id |-> TrainId(t)] @@ body

\* POST /models/import: the uploaded model gets a new id and is written to
\* the file named by it.
PostImport ==
    /\ op = "idle"
    /\ op' = "POST /models/import"
    /\ \E upload \in ImportBodies :
          /\ req' = upload
          /\ IF InvalidModelFormat(upload)
             THEN /\ ret' = [status |-> 400, error |-> "Invalid model format"]
                  /\ UNCHANGED store
             ELSE LET model == ImportedModel(upload.body, now)
                  IN  /\ WithinStore(store, model.id)
                      /\ store' = WriteFile(store, model.id, model)
                      /\ ret' = [status |-> 200, data |-> JsonForm(model)]
    /\ UNCHANGED <<models, newModel, now>>
    /\ UNCHANGED dbVars

\* The files of a directory in the order readdir lists them (one order, not
\* determined by the names).
ReadDir(names) ==
    CHOOSE ids \in [1..Cardinality(names) -> names] :
        \A id \in names : \E i \in 1..Cardinality(names) : ids[i] = id

\* compareModels called by any other caller, on some of the stored models.
CallCompareModels ==
    /\ op = "idle"
    /\ op' = "compareModels"
    /\ \E names \in SUBSET DOMAIN store :
          LET ids == ReadDir(names)
          IN  /\ models' = [i \in 1..Len(ids) |-> store[ids[i]]]
              /\ ret' \in CompareOutcomes(models')
    /\ UNCHANGED <<req, newModel, now, store>>
    /\ UNCHANGED dbVars

\* GET /versions/:model_id: every file of MODELS_DIR is read and the history
\* of model_id is looked up in them.  When the loop of getModelVersionHistory
\* has no end the handler sends no response.
GetVersions ==
    /\ op = "idle"
    /\ op' = "GET /versions"
    /\ \E model_id \in DOMAIN store \cup {TrainId(MaxClock)} :
          LET files == ReadDir(DOMAIN store)
              loaded == [i \in 1..Len(files) |-> store[files[i]]]
              versions == getModelVersionHistory(loaded, model_id)
          IN  /\ req' = [model_id |-> model_id]
              /\ models' = loaded
              /\ ret' = IF versions.threw THEN versions
                        ELSE [status |-> 200, data |-> versions.value]
    /\ UNCHANGED <<newModel, now, store>>
    /\ UNCHANGED dbVars

\* The handler is in a loop that never ends: the process serves nothing more.
Hangs == op = "GET /versions" /\ "status" \notin DOMAIN ret

\* The response is sent and the handler ends.
Reply ==
    /\ op /= "idle"
    /\ ~Hangs
    /\ op' = "idle"
    /\ req' = NoFields
    /\ models' = <<>>
    /\ newModel' = NoFields
    /\ ret' = Idle
    /\ UNCHANGED <<now, store>>
    /\ UNCHANGED dbVars

\* Time passes.
Tick ==
    /\ op = "idle"
    /\ now < MaxClock
    /\ now' = now + 1
    /\ UNCHANGED <<op, req, models, newModel, store, ret>>
    /\ UNCHANGED dbVars

Init ==
    /\ op = "idle"
    /\ req = NoFields
    /\ models = <<>>
    /\ newModel = NoFields
    /\ now = 0
    /\ store = NoFields
    /\ ret = Idle
    /\ DatabaseAtRest

Next ==
    \/ PostTrain
    \/ PostImport
    \/ PostVersions
    \/ PostCompare
    \/ CallCompareModels
    \/ GetVersions
    \/ Reply
    \/ Tick

Spec == Init /\ [][Next]_vars

\* ----------------------------------------------------------- version chain

\* Most versions created one from the other after a root.
MaxChain == 3

\* The roots of a chain: a model of a regression trainer and a model of a
\* classification trainer.
ChainRoots ==
    {TrainRegression("linear", m, 0) : m \in TrainMetrics}
    \cup {TrainClassification("logistic_regression", m, 0) : m \in ClassificationMetrics}

\* The overrides of a new version of the chain: none carries an id.
ChainOverrides ==
    {NoFields, [description |-> "retrained", version |-> 7, parent_id |-> "other"]}

\* createModelVersion(last, overrides): the chain grows by the new version.
ExtendChain ==
    /\ op = "idle"
    /\ Len(models) > 0
    /\ Len(models) <= MaxChain
    /\ \E overrides \in ChainOverrides :
          /\ newModel' = overrides
          /\ models' = Append(models, createModelVersion(models[Len(models)], overrides, now))
    /\ UNCHANGED <<op, req, now, store, ret>>
    /\ UNCHANGED dbVars

\* s[keep[1]], s[keep[2]], ...: the records at the places of keep, in the
\* order of s.
RECURSIVE Pick(_, _, _)
Pick(s, keep, i) ==
    IF i > Len(s) THEN <<>>
    ELSE (IF i \in keep THEN <<s[i]>> ELSE <<>>) \o Pick(s, keep, i + 1)

Reverse(s) == [i \in 1..Len(s) |-> s[Len(s) + 1 - i]]

\* getModelVersionHistory(collection, modelId) on a collection that holds
\* some of the records of the chain, in the order of the chain or in the
\* opposite order, for the id of a record of the chain or an id of no record.
GetModelVersionHistory ==
    /\ op = "idle"
    /\ op' = "getModelVersionHistory"
    /\ \E keep \in SUBSET (1..Len(models)), backwards \in BOOLEAN,
          modelId \in {models[i].id : i \in 1..Len(models)} \cup {"absent"} :
          LET kept == Pick(models, keep, 1)
              collection == IF backwards THEN Reverse(kept) ELSE kept
          IN  /\ req' = [models |-> collection, modelId |-> modelId]
              /\ ret' = getModelVersionHistory(collection, modelId)
    /\ UNCHANGED <<models, newModel, now, store>>
    /\ UNCHANGED dbVars

InitHistory ==
    /\ op = "idle"
    /\ ret = Idle
    /\ req = NoFields
    /\ newModel = NoFields
    /\ now = 0
    /\ store = NoFields
    /\ \E root \in ChainRoots : models = <<root>>
    /\ DatabaseAtRest

NextHistory == ExtendChain \/ GetModelVersionHistory

SpecHistory == InitHistory /\ [][NextHistory]_vars

\* ------------------------------------------------------ the four functions

\* getModelVersionHistory(models, modelId) on the whole list, for the id of
\* one of its records or an id of no record.
CallGetModelVersionHistory ==
    /\ op = "idle"
    /\ op' = "getModelVersionHistory"
    /\ \E modelId \in {models[i].id : i \in 1..Len(models)} \cup {"absent"} :
          /\ req' = [models |-> models, modelId |-> modelId]
          /\ ret' = getModelVersionHistory(models, modelId)
    /\ UNCHANGED <<models, newModel, now, store>>
    /\ UNCHANGED dbVars

\* Lists of models every one of the four functions can be called on.
PureInputs ==
    UNION {TypedInputs(n) \cup MapeInputs(n) : n \in 0..MaxModels}
    \cup {<<parent>> : parent \in ParentModels}

InitPure ==
    /\ op = "idle"
    /\ ret = Idle
    /\ req = NoFields
    /\ now = 0
    /\ store = NoFields
    /\ newModel \in ChainOverrides
    /\ models \in PureInputs
    /\ DatabaseAtRest

NextPure ==
    \/ CompareModels
    \/ CompareTwoModels
    \/ CreateModelVersion
    \/ ExtendChain
    \/ CallGetModelVersionHistory

SpecPure == InitPure /\ [][NextPure]_vars

\* --------------------------------------------------------- calculateMetrics

\* Most samples of a test set.
MaxSamples == 2

\* A number that is a ratio of integers, den > 0 (the floats of the source,
\* exact on the values used).
Ratio(num, den) == [num |-> num, den |-> den]

AddRatio(x, y) == Ratio(x.num * y.den + y.num * x.den, x.den * y.den)

\* values.reduce((a, b) => a + b, 0)
RECURSIVE SumRatios(_)
SumRatios(values) ==
    IF values = <<>> THEN Ratio(0, 1)
    ELSE AddRatio(Head(values), SumRatios(Tail(values)))

\* mean(values) of simple-statistics, for a list that is not empty.
Mean(values) ==
    LET sum == SumRatios(values)
    IN  Ratio(sum.num, sum.den * Len(values))

\* The percentage error of a sample with actual value 0 is not defined.
PercentageErrorNoneAtZero(a, p) ==
    IF a = 0 THEN [defined |-> FALSE]
    ELSE [defined |-> TRUE, value |-> Ratio(100 * Abs(a - p), Abs(a))]

\* if (a === 0) return 0; return Math.abs((a - predicted[i]) / a) * 100
PercentageError(a, p) ==
    IF a = 0 THEN [defined |-> TRUE, value |-> Ratio(0, 1)]
    ELSE [defined |-> TRUE, value |-> Ratio(100 * Abs(a - p), Abs(a))]

\* 1 - residualSS / totalSS, where totalSS is n times totalSSTimesN: with
\* totalSS = 0 the division gives Infinity, or NaN for 0 / 0.
RSquared(residualSS, totalSSTimesN, n) ==
    IF totalSSTimesN = 0
    THEN (IF residualSS = 0 THEN [is |-> "NaN"] ELSE [is |-> "-Infinity"])
    ELSE [is |-> "number",
          value |-> Ratio(totalSSTimesN - n * residualSS, totalSSTimesN)]

\* calculateMetrics(actual, predicted).  rmse is given by its square.
calculateMetrics(actual, predicted) ==
    LET n == Len(actual)
        squaredErrors == [i \in 1..n |-> Ratio((actual[i] - predicted[i]) * (actual[i] - predicted[i]), 1)]
        absoluteErrors == [i \in 1..n |-> Ratio(Abs(actual[i] - predicted[i]), 1)]
        percentageErrors == [i \in 1..n |-> PercentageError(actual[i], predicted[i])]
        sumActual == SumRatios([i \in 1..n |-> Ratio(actual[i], 1)]).num
        sumSquares == SumRatios([i \in 1..n |-> Ratio(actual[i] * actual[i], 1)]).num
        residualSS == SumRatios(squaredErrors).num
    IN  IF n = 0
        THEN [threw |-> TRUE, error |-> "mean requires at least one data point"]
        ELSE [threw |-> FALSE,
              value |->
                 (IF \A i \in 1..n : percentageErrors[i].defined
                  THEN [mape |-> Mean([i \in 1..n |-> percentageErrors[i].value])]
                  ELSE NoFields)
                 @@ [mse |-> Mean(squaredErrors),
                     rmse |-> [squared |-> Mean(squaredErrors)],
                     mae |-> Mean(absoluteErrors),
                     r2 |-> RSquared(residualSS, n * sumSquares - sumActual * sumActual, n)]]

\* The values of a sample, actual or predicted.
SampleValues == {-1, 0, 2}

\* calculateMetrics(yTest, predictions)
CalculateMetrics ==
    /\ op = "idle"
    /\ op' = "calculateMetrics"
    /\ ret' = calculateMetrics(req.actual, req.predicted)
    /\ UNCHANGED <<req, models, newModel, now, store>>
    /\ UNCHANGED dbVars

\* A test set (empty when the data set has fewer than 5 rows) and the
\* predictions for it.
InitMetrics ==
    /\ op = "idle"
    /\ ret = Idle
    /\ models = <<>>
    /\ newModel = NoFields
    /\ now = 0
    /\ store = NoFields
    /\ \E n \in 0..MaxSamples :
          \E actual \in [1..n -> SampleValues], predicted \in [1..n -> SampleValues] :
              req = [actual |-> actual, predicted |-> predicted]
    /\ DatabaseAtRest

NextMetrics == CalculateMetrics

SpecMetrics == InitMetrics /\ [][NextMetrics]_vars

\* ----------------------------------------------------------- JSON database

\* Most ids generateId makes in a run.
MaxGenerated == 2

\* Most saveDatabase() calls in flight at a time.
MaxSaving == 1

\* generateId(): `${Date.now()}-${Math.random()...}`, taken to be an id that
\* was never made before.
generateId(n) == "id" \o ToString(n + 1)

\* What DB_FILE holds when an earlier run of the server saved it: a data set
\* with a session, a message of that session, a vector and an analysis
\* result (the properties that are not ids are left out).
SavedDatabase ==
    [datasets |-> <<[id |-> "old1", name |-> "sales.csv"]>>,
     sessions |-> <<[id |-> "old2", dataset_id |-> "old1"]>>,
     messages |-> <<[id |-> "old3", session_id |-> "old2"]>>,
     vectors  |-> <<[id |-> "old4", dataset_id |-> "old1"]>>,
     analysis |-> <<[id |-> "old5", dataset_id |-> "old1", session_id |-> "old2"]>>]

\* db.datasets.find(d => d.id === id) || null
getDataset(database, id) ==
    LET found == {i \in 1..Len(database.datasets) : database.datasets[i].id = id}
    IN  IF found = {} THEN [null |-> TRUE]
        ELSE [null |-> FALSE,
              value |-> database.datasets[CHOOSE i \in found : \A k \in found : i <= k]]

\* The records of a list.
Elements(s) == {s[i] : i \in 1..Len(s)}

\* The records r of the list s with r[field] /= value.
Others(s, field, value) == {s[i] : i \in {k \in 1..Len(s) : s[k][field] /= value}}

\* const sessionIds = db.sessions.filter(s => s.dataset_id === id).map(s => s.id),
\* evaluated after db.sessions was replaced by the sessions of other data sets.
SessionIds(sessionsBefore, sessionsAfter, id) ==
    {sessionsAfter[i].id : i \in {k \in 1..Len(sessionsAfter) :
                                      sessionsAfter[k].dataset_id = id}}

\* The database after deleteDataset(id).
deleteDataset(database, id) ==
    LET sessions == Filter(database.sessions, Others(database.sessions, "dataset_id", id))
        sessionIds == SessionIds(database.sessions, sessions, id)
    IN  [datasets |-> Filter(database.datasets, Others(database.datasets, "id", id)),
         sessions |-> sessions,
         messages |-> Filter(database.messages,
                             {m \in Elements(database.messages) :
                                 m.session_id \notin sessionIds}),
         vectors  |-> Filter(database.vectors, Others(database.vectors, "dataset_id", id)),
         analysis |-> Filter(database.analysis, Others(database.analysis, "dataset_id", id))]

\* The database after deleteSession(id).
deleteSession(database, id) ==
    [database EXCEPT
        !.sessions = Filter(database.sessions, Others(database.sessions, "id", id)),
        !.messages = Filter(database.messages, Others(database.messages, "session_id", id))]

\* saveDatabase() up to its first await.  With DB_FILE on disk the backup
\* copy is awaited first, and JSON.stringify(db) runs after it; with no
\* DB_FILE, JSON.stringify(db) runs at once on the database as it is then.
\* (JSON.stringify and JSON.parse give back the records as they are: every
\* property kept here is a string.)
saveDatabase(inFlight, file, database) ==
    inFlight \cup {IF file.exists THEN [step |-> "copyFile"]
                   ELSE [step |-> "writeFile", data |-> database]}

\* The ids of the records of a list.
IdsOf(s) == {s[i].id : i \in 1..Len(s)}

\* A function of the module was called and made the database next, calling
\* saveDatabase() on its way out.
Mutation(name, argument, result, next) ==
    /\ op' = name
    /\ req' = argument
    /\ ret' = result
    /\ db' = next
    /\ saving' = saveDatabase(saving, dbFile, next)
    /\ Cardinality(saving') <= MaxSaving
    /\ UNCHANGED <<models, newModel, now, store, dbFile, loading>>

\* createDataset(dataset)
CreateDataset ==
    /\ generated < MaxGenerated
    /\ generated' = generated + 1
    /\ LET newDataset == [id |-> generateId(generated), name |-> "sales.csv"]
       IN  Mutation("createDataset", [name |-> "sales.csv"], newDataset,
                    [db EXCEPT !.datasets = Append(@, newDataset)])

\* createSession(session), for a data set of the database
CreateSession ==
    /\ generated < MaxGenerated
    /\ generated' = generated + 1
    /\ \E dataset_id \in IdsOf(db.datasets) :
          LET newSession == [id |-> generateId(generated), dataset_id |-> dataset_id]
          IN  Mutation("createSession", [dataset_id |-> dataset_id], newSession,
                       [db EXCEPT !.sessions = Append(@, newSession)])

\* createMessage(message), for a session of the database
CreateMessage ==
    /\ generated < MaxGenerated
    /\ generated' = generated + 1
    /\ \E session_id \in IdsOf(db.sessions) :
          LET newMessage == [id |-> generateId(generated), session_id |-> session_id]
          IN  Mutation("createMessage", [session_id |-> session_id], newMessage,
                       [db EXCEPT !.messages = Append(@, newMessage)])

\* deleteDataset(id), for the id of a data set of the database or another id
DeleteDataset ==
    /\ \E id \in IdsOf(db.datasets) \cup {"none"} :
          Mutation("deleteDataset", [id |-> id], [null |-> TRUE], deleteDataset(db, id))
    /\ UNCHANGED generated

\* deleteSession(id), for the id of a session of the database
DeleteSession ==
    /\ \E id \in IdsOf(db.sessions) :
          Mutation("deleteSession", [id |-> id], [null |-> TRUE], deleteSession(db, id))
    /\ UNCHANGED generated

\* getDataset(id), for an id generateId made, or one of the saved database
GetDataset ==
    /\ \E id \in {generateId(n) : n \in 0..(generated - 1)} \cup IdsOf(SavedDatabase.datasets) :
          /\ op' = "getDataset"
          /\ req' = [id |-> id]
          /\ ret' = getDataset(db, id)
    /\ UNCHANGED <<models, newModel, now, store, dbVars>>

\* loadDatabase(): fs.readFile reads DB_FILE, or finds no file.
LoadReadFile ==
    /\ loading.step = "readFile"
    /\ loading' = IF dbFile.exists THEN [step |-> "parse", data |-> dbFile.data]
                  ELSE [step |-> "catch"]
    /\ UNCHANGED <<op, req, models, newModel, now, store, ret,
                   db, dbFile, saving, generated>>

\* loadDatabase() after the await: db = JSON.parse(data)
LoadParse ==
    /\ loading.step = "parse"
    /\ db' = loading.data
    /\ loading' = [step |-> "done"]
    /\ UNCHANGED <<op, req, models, newModel, now, store, ret,
                   dbFile, saving, generated>>

\* loadDatabase(), the catch block: the database in memory is saved.
LoadCatch ==
    /\ loading.step = "catch"
    /\ saving' = saveDatabase(saving, dbFile, db)
    /\ Cardinality(saving') <= MaxSaving
    /\ loading' = [step |-> "done"]
    /\ UNCHANGED <<op, req, models, newModel, now, store, ret,
                   db, dbFile, generated>>

\* setInterval(saveDatabase, 5000)
SaveTimer ==
    /\ saving' = saveDatabase(saving, dbFile, db)
    /\ Cardinality(saving') <= MaxSaving
    /\ UNCHANGED <<op, req, models, newModel, now, store, ret,
                   db, dbFile, loading, generated>>

\* saveDatabase() after fs.copyFile: JSON.stringify(db) of the database as it
\* is now, handed to fs.writeFile.
SaveCopied ==
    /\ [step |-> "copyFile"] \in saving
    /\ saving' = (saving \ {[step |-> "copyFile"]})
                    \cup {[step |-> "writeFile", data |-> db]}
    /\ UNCHANGED <<op, req, models, newModel, now, store, ret,
                   db, dbFile, loading, generated>>

\* fs.writeFile has written DB_FILE.
SaveWritten ==
    /\ \E save \in saving :
          /\ save.step = "writeFile"
          /\ dbFile' = [exists |-> TRUE, data |-> save.data]
          /\ saving' = saving \ {save}
    /\ UNCHANGED <<op, req, models, newModel, now, store, ret,
                   db, loading, generated>>

\* The module has just been loaded: loadDatabase() is waiting for
\* fs.readFile, and DB_FILE is there from an earlier run or is not.
InitDatabase ==
    /\ op = "idle"
    /\ req = NoFields
    /\ models = <<>>
    /\ newModel = NoFields
    /\ now = 0
    /\ store = NoFields
    /\ ret = Idle
    /\ db = EmptyDatabase
    /\ dbFile \in {[exists |-> FALSE], [exists |-> TRUE, data |-> SavedDatabase]}
    /\ loading = [step |-> "readFile"]
    /\ saving = {}
    /\ generated = 0

NextDatabase ==
    \/ CreateDataset
    \/ CreateSession
    \/ CreateMessage
    \/ DeleteDataset
    \/ DeleteSession
    \/ GetDataset
    \/ LoadReadFile
    \/ LoadParse
    \/ LoadCatch
    \/ SaveTimer
    \/ SaveCopied
    \/ SaveWritten

SpecDatabase == InitDatabase /\ [][NextDatabase]_vars

\* ------------------------------------------------------------------ claims

Compared == op = "compareModels"

Table == ret.comparison_table

DistinctIds(ms) == \A i, j \in 1..Len(ms) : i /= j => ms[i].id /= ms[j].id

Rmse(m) == m.metrics.rmse
Mae(m) == m.metrics.mae
R2(m) == m.metrics.r2
NegR2(m) == 0 - m.metrics.r2
Mape(m) == m.metrics.mape

\* The permutations of 1..n, for n up to one more than the longest list.
IndexPermutations ==
    [n \in 0..(MaxModels + 1) |->
        {p \in [1..n -> 1..n] : \A i, j \in 1..n : i /= j => p[i] /= p[j]}]

\* ids lists the ids of the models ms, each model once, in an order in
\* which key never decreases.
OrderedBy(ids, ms, key(_)) ==
    /\ Len(ids) = Len(ms)
    /\ \E p \in IndexPermutations[Len(ms)] :
          /\ \A k \in 1..Len(ms) : ids[k] = ms[p[k]].id
          /\ \A k \in 1..(Len(ms) - 1) : key(ms[p[k]]) <= key(ms[p[k + 1]])

\* C1: for every non-empty list of models, best_overall is the id of the
\* first row of comparison_table, and the rows are in non-decreasing order of
\* rank_overall.
C1_BestIsFirstOfSortedTable ==
    (Compared /\ Len(models) > 0) =>
        /\ ~ret.threw
        /\ Len(Table) = Len(models)
        /\ ret.best_overall = Table[1].id
        /\ \A i, j \in 1..Len(Table) :
              i < j => Table[i].rank_overall <= Table[j].rank_overall

\* Three models whose overall ranks are not already in order in the input.
C1_Witness ==
    /\ Compared /\ Len(models) = 3 /\ ~ret.threw
    /\ Table[1].id = models[3].id
    /\ Table[1].rank_overall < Table[2].rank_overall
    /\ Table[2].rank_overall < Table[3].rank_overall

NoTies(ms, key(_)) == \A i, j \in 1..Len(ms) : i /= j => key(ms[i]) /= key(ms[j])

TieFree(ms) ==
    DistinctIds(ms) /\ NoTies(ms, Rmse) /\ NoTies(ms, Mae) /\ NoTies(ms, R2)

\* C2: with pairwise distinct ids and no two models equal on a metric, each
\* of rank_rmse, rank_mae, rank_r2 takes every value of 1..N exactly once
\* over the N rows.
C2_RanksArePermutations ==
    (Compared /\ Len(models) > 0 /\ TieFree(models)) =>
        /\ ~ret.threw
        /\ Len(Table) = Len(models)
        /\ {Table[i].rank_rmse : i \in 1..Len(Table)} = 1..Len(models)
        /\ {Table[i].rank_mae : i \in 1..Len(Table)} = 1..Len(models)
        /\ {Table[i].rank_r2 : i \in 1..Len(Table)} = 1..Len(models)

\* Three tie-free models ranked differently by rmse and by r2.
C2_Witness ==
    /\ Compared /\ Len(models) = 3 /\ TieFree(models) /\ ~ret.threw
    /\ \E i \in 1..3 : Table[i].rank_rmse /= Table[i].rank_r2

\* C3: by_rmse and by_mae hold every input model once in non-decreasing
\* order of the metric, and by_r2 holds every input model once in
\* non-increasing order of r2.
C3_RankingsAreTotalOrders ==
    (Compared /\ Len(models) > 0) =>
        /\ ~ret.threw
        /\ OrderedBy(ret.rankings.by_rmse, models, Rmse)
        /\ OrderedBy(ret.rankings.by_mae, models, Mae)
        /\ OrderedBy(ret.rankings.by_r2, models, NegR2)

\* Three models that the three rankings order in three different ways.
C3_Witness ==
    /\ Compared /\ Len(models) = 3 /\ DistinctIds(models) /\ ~ret.threw
    /\ ret.rankings.by_rmse /= ret.rankings.by_mae
    /\ ret.rankings.by_rmse /= ret.rankings.by_r2
    /\ ret.rankings.by_mae /= ret.rankings.by_r2

\* C4: in every row rank_overall is the integer nearest to
\* (rank_rmse + rank_mae + rank_r2) / 3, and lies in 1..N.
C4_RankOverallIsRoundedMean ==
    (Compared /\ Len(models) > 0) =>
        /\ ~ret.threw
        /\ \A i \in 1..Len(Table) :
              LET sum == Table[i].rank_rmse + Table[i].rank_mae + Table[i].rank_r2
                  d == 3 * Table[i].rank_overall - sum
              IN  /\ -1 <= d /\ d <= 1
                  /\ Table[i].rank_overall \in 1..Len(models)

\* A row whose mean rank is rounded up and a row whose mean rank is rounded
\* down.
C4_Witness ==
    /\ Compared /\ ~ret.threw
    /\ \E i, j \in 1..Len(Table) :
          /\ 3 * Table[i].rank_overall
                = Table[i].rank_rmse + Table[i].rank_mae + Table[i].rank_r2 + 1
          /\ 3 * Table[j].rank_overall
                = Table[j].rank_rmse + Table[j].rank_mae + Table[j].rank_r2 - 1

ModelsWithMape(ms) == Filter(ms, {m \in {ms[i] : i \in 1..Len(ms)} : HasMape(m)})

\* C5: by_mape holds exactly the input models that have mape, in ascending
\* order of mape; comparison_table has one row for every input model, with
\* mape in the row exactly when the model has it.
C5_MapeSubset ==
    (Compared /\ Len(models) > 0) =>
        /\ ~ret.threw
        /\ OrderedBy(ret.rankings.by_mape, ModelsWithMape(models), Mape)
        /\ Len(Table) = Len(models)
        /\ \A i \in 1..Len(models) :
              \* as many rows as models carry this id and this mape (or none)
              Cardinality({k \in 1..Len(Table) :
                              /\ Table[k].id = models[i].id
                              /\ ("mape" \in DOMAIN Table[k]) = HasMape(models[i])
                              /\ HasMape(models[i]) => Table[k].mape = models[i].metrics.mape})
                = Cardinality({k \in 1..Len(models) :
                              /\ models[k].id = models[i].id
                              /\ HasMape(models[k]) = HasMape(models[i])
                              /\ HasMape(models[i]) =>
                                    models[k].metrics.mape = models[i].metrics.mape})

\* A model without mape listed before two models with mape that by_mape
\* reorders.
C5_Witness ==
    /\ Compared /\ Len(models) = 3 /\ ~ret.threw
    /\ ~HasMape(models[1]) /\ HasMape(models[2]) /\ HasMape(models[3])
    /\ models[2].metrics.mape > models[3].metrics.mape
    /\ ret.rankings.by_mape = <<models[3].id, models[2].id>>
    /\ Len(Table) = 3

\* C6: compareModels on the empty list throws "No models to compare" and
\* returns no result.
C6_EmptyInputThrows ==
    (Compared /\ Len(models) = 0) =>
        /\ ret.threw
        /\ ret.error = "No models to compare"
        /\ "comparison_table" \notin DOMAIN ret

C6_Witness == Compared /\ models = <<>> /\ ret.threw

\* C7: compareModels on a single model returns a result in which the
\* model's four ranks are 1, it is best_overall, and every part of the
\* result is present.
C7_SingleModel ==
    (Compared /\ Len(models) = 1) =>
        /\ ~ret.threw
        /\ ret.models = models
        /\ ret.best_overall = models[1].id
        /\ Len(Table) = 1
        /\ Table[1].id = models[1].id
        /\ Table[1].rank_rmse = 1 /\ Table[1].rank_mae = 1
        /\ Table[1].rank_r2 = 1 /\ Table[1].rank_overall = 1
        /\ ret.rankings.by_rmse = <<models[1].id>>
        /\ ret.rankings.by_mae = <<models[1].id>>
        /\ ret.rankings.by_r2 = <<models[1].id>>
        /\ ret.rankings.by_mape = (IF HasMape(models[1]) THEN <<models[1].id>> ELSE <<>>)
        /\ Len(ret.recommendations) >= 2

C7_Witness == Compared /\ Len(models) = 1 /\ ~ret.threw /\ Table[1].rank_overall = 1

\* C9: compareTwoModels returns as winner the id of one of the two models,
\* one that won at least 2 of the 3 comparisons (rmse, mae, r2); with two
\* different ids the other model won fewer.
C9_PairWinnerHasMajority ==
    op = "compareTwoModels" =>
        LET won(id) == Cardinality({k \in {"rmse", "mae", "r2"} :
                                       ret.metrics_comparison[k].winner = id})
        IN  /\ ret.winner \in {models[1].id, models[2].id}
            /\ won(ret.winner) >= 2
            /\ ret.summary.wins = won(ret.winner)
            /\ \A i \in 1..2 : models[i].id /= ret.winner => won(models[i].id) < won(ret.winner)

\* The first model wins rmse and mae, the second wins r2.
C9_Witness ==
    /\ op = "compareTwoModels"
    /\ models[1].id /= models[2].id
    /\ ret.metrics_comparison.rmse.winner = models[1].id
    /\ ret.metrics_comparison.mae.winner = models[1].id
    /\ ret.metrics_comparison.r2.winner = models[2].id
    /\ ret.winner = models[1].id

\* C10: for a parent with version >= 1 and any overrides, the new record has
\* version parent.version + 1 and parent_id parent.id.
C10_VersionIncrement ==
    (/\ op = "createModelVersion"
     /\ "version" \in DOMAIN models[1]
     /\ models[1].version >= 1) =>
        /\ ~ret.threw
        /\ ret.value.version = models[1].version + 1
        /\ ret.value.parent_id = models[1].id

\* The overrides carry a version and a parent_id of their own, and neither
\* is taken.
C10_Witness ==
    /\ op = "createModelVersion"
    /\ "version" \in DOMAIN models[1]
    /\ {"version", "parent_id", "trainedAt"} \subseteq DOMAIN newModel
    /\ newModel.version /= models[1].version + 1
    /\ newModel.parent_id /= models[1].id
    /\ ret.value.version = models[1].version + 1
    /\ ret.value.parent_id = models[1].id

\* C8 as stated: a comparison requested with fewer than 2 models, through
\* the route or through compareModels, is rejected with an error and
\* produces no ComparisonResult.
C8_FewerThanTwoRejected ==
    /\ (op = "POST /compare" /\ (TooFewIds(req) \/ Len(models) < 2)) =>
          ret.status >= 400 /\ "data" \notin DOMAIN ret
    /\ (op = "compareModels" /\ Len(models) < 2) =>
          ret.threw /\ "comparison_table" \notin DOMAIN ret

\* C8, amended: POST /compare answers 400, reads no model and produces no
\* ComparisonResult when model_ids is missing, is not an array or has fewer
\* than 2 entries; compareModels itself throws "No models to compare" only
\* on the empty list and returns a ComparisonResult for one regression model.
C8_RouteRejectsFewerThanTwoIds ==
    /\ (op = "POST /compare"
        /\ ("model_ids" \in DOMAIN req => ~req.is_array \/ Len(req.model_ids) < 2)) =>
          /\ ret.status = 400
          /\ "data" \notin DOMAIN ret
          /\ models = <<>>
    /\ (op = "POST /compare" /\ ret.status = 200) =>
          Len(req.model_ids) >= 2 /\ Len(models) = Len(req.model_ids)
    /\ (op = "compareModels" /\ Len(models) = 0) =>
          ret.threw /\ ret.error = "No models to compare"
    /\ (op = "compareModels" /\ Len(models) > 0 /\ ret.threw) =>
          ret.error /= "No models to compare"
    /\ (op = "compareModels" /\ Len(models) = 1 /\ HasRegressionMetrics(models[1])) =>
          ~ret.threw /\ Len(ret.comparison_table) = 1

\* The route refuses a request that names one stored model.
C8_Witness ==
    /\ op = "POST /compare"
    /\ "model_ids" \in DOMAIN req /\ req.is_array
    /\ Len(req.model_ids) = 1
    /\ req.model_ids[1] \in DOMAIN store
    /\ ret.status = 400

\* The history of a chain was asked for.
Walked == op = "getModelVersionHistory"

\* The records of a list.
Records(s) == {s[i] : i \in 1..Len(s)}

\* m.version is an integer.
IntegerVersion(m) == "version" \in DOMAIN m /\ m.version \notin {NaN, Null}

\* C11: for a chain root, v1, ..., vk built by repeated createModelVersion
\* with no id supplied, all of it in the collection, the history of vk's id
\* is exactly <<root, v1, ..., vk>>, and along it every version is an
\* integer one more than the version before.
C11_HistoryRoundTrip ==
    (/\ Walked
     /\ Records(models) \subseteq Records(req.models)
     /\ req.modelId = models[Len(models)].id) =>
        /\ ~ret.threw
        /\ ret.value = models
        /\ \A i \in 1..(Len(ret.value) - 1) :
              /\ IntegerVersion(ret.value[i])
              /\ IntegerVersion(ret.value[i + 1])
              /\ ret.value[i + 1].version = ret.value[i].version + 1

\* The place in the chain of the record with this id (0 for an id of no
\* record).
PlaceInChain(id) ==
    IF \E i \in 1..Len(models) : models[i].id = id
    THEN CHOOSE i \in 1..Len(models) : models[i].id = id
    ELSE 0

\* The last place before place t whose record is not in the collection (0
\* when every ancestor is there).
GapBefore(t) ==
    LET gaps == {j \in 1..(t - 1) : models[j] \notin Records(req.models)}
    IN  IF gaps = {} THEN 0 ELSE CHOOSE j \in gaps : \A k \in gaps : k <= j

\* C12: getModelVersionHistory never throws for a missing record; for a
\* target that is not in the collection it returns the empty list, and
\* otherwise the records of the chain from the one after the last missing
\* ancestor down to the target, in root-to-target order.
C12_MissingRecordsTolerated ==
    Walked =>
        LET t == PlaceInChain(req.modelId)
        IN  /\ ~ret.threw
            /\ (t = 0 \/ models[t] \notin Records(req.models)) => ret.value = <<>>
            /\ (t > 0 /\ models[t] \in Records(req.models)) =>
                  ret.value = SubSeq(models, GapBefore(t) + 1, t)

\* A chain of four records without the second: the history of the fourth is
\* the third and the fourth.
C12_Witness ==
    /\ Walked
    /\ Len(models) = 4
    /\ Records(req.models) = {models[1], models[3], models[4]}
    /\ req.modelId = models[4].id
    /\ ret.value = <<models[3], models[4]>>

\* C13: a POST /versions/:model_id that succeeds adds one stored record and
\* leaves every record that was stored before it as it was.
C13_NewVersionIsNewRecord ==
    [][(op' = "POST /versions" /\ ret'.status = 200) =>
          /\ \A id \in DOMAIN store : id \in DOMAIN store' /\ store'[id] = store[id]
          /\ Cardinality(DOMAIN store') = Cardinality(DOMAIN store) + 1]_vars

\* Following parent_id from the stored record id ends, within steps records,
\* at a stored record that has no parent_id.
RECURSIVE ReachesRoot(_, _)
ReachesRoot(id, steps) ==
    IF id \notin DOMAIN store THEN FALSE
    ELSE IF ~HasParent(store[id]) THEN TRUE
    ELSE steps > 1 /\ ReachesRoot(store[id].parent_id, steps - 1)

\* C14: from every stored model, following parent_id visits no record twice
\* (so at most as many records as are stored) and ends at a record with no
\* parent_id.
C14_ChainsAcyclicAndRooted ==
    \A id \in DOMAIN store : ReachesRoot(id, Cardinality(DOMAIN store))

\* C15: the record a training operation produces has the integer version 1
\* and no parent_id, and every stored model has an integer version >= 1.
C15_TrainedModelsAreVersionOneRoots ==
    /\ (op = "POST /train" /\ "data" \in DOMAIN ret) =>
          /\ IntegerVersion(ret.data)
          /\ ret.data.version = 1
          /\ "parent_id" \notin DOMAIN ret.data
    /\ \A id \in DOMAIN store :
          IntegerVersion(store[id]) /\ store[id].version >= 1

Recs == ret.recommendations

\* The places of the recommendations whose message is one of msgs.
Places(msgs) == {i \in 1..Len(Recs) : Recs[i].msg \in msgs}

\* models.find(m => m.id === best_overall)
BestModel ==
    models[CHOOSE i \in 1..Len(models) :
              /\ models[i].id = ret.best_overall
              /\ \A j \in 1..(i - 1) : models[j].id /= ret.best_overall]

R2Messages == {"excellent_fit", "good_fit", "moderate_fit", "poor_fit"}

\* C16: the recommendations start with the best-model message (name, type
\* and r2 of the best model); the second is the R² message of the best
\* model's r2: excellent above 0.9, else good above 0.7, else moderate above
\* 0.5, else poor; and no other entry is an R² message.
C16_BestThenR2Bucket ==
    (Compared /\ Len(models) > 0) =>
        LET r2 == BestModel.metrics.r2
        IN  /\ ~ret.threw
            /\ Len(Recs) >= 2
            /\ Recs[1] = [msg |-> "best_overall", name |-> BestModel.name,
                          type |-> BestModel.type, r2 |-> r2]
            /\ Places(R2Messages) = {2}
            /\ r2 > 90 => Recs[2].msg = "excellent_fit"
            /\ (70 < r2 /\ r2 <= 90) => Recs[2].msg = "good_fit"
            /\ (50 < r2 /\ r2 <= 70) => Recs[2].msg = "moderate_fit"
            /\ r2 <= 50 => Recs[2].msg = "poor_fit"

\* The best of two models has r2 exactly 0.9 and the message is "good fit".
C16_Witness ==
    /\ Compared /\ Len(models) = 2 /\ ~ret.threw
    /\ BestModel.metrics.r2 = 90
    /\ Recs[2].msg = "good_fit"

\* C17: the "significant improvement" message is among the recommendations
\* if and only if (worst_rmse - best_rmse) / worst_rmse * 100 exceeds 10,
\* worst_rmse and best_rmse being the largest and the smallest rmse of the
\* compared models.
C17_SignificantIffAboveTen ==
    (Compared /\ Len(models) > 0) =>
        LET rmses == {models[i].metrics.rmse : i \in 1..Len(models)}
            worst == CHOOSE x \in rmses : \A y \in rmses : y <= x
            best == CHOOSE x \in rmses : \A y \in rmses : x <= y
        IN  (Places({"significant_improvement"}) /= {})
                <=> (worst > 0 /\ 100 * (worst - best) > 10 * worst)

TypeMessages == {"non_linear_relationship", "complex_patterns", "linear_relationship"}

\* The type message that goes with the type of the best model.
TypeMessageGoesWithBestType ==
    (Compared /\ Len(models) > 0) =>
        /\ BestModel.type = "polynomial" =>
              \A i \in Places(TypeMessages) : Recs[i].msg = "non_linear_relationship"
        /\ BestModel.type = "random_forest" =>
              \A i \in Places(TypeMessages) : Recs[i].msg = "complex_patterns"
        /\ BestModel.type = "linear" =>
              \A i \in Places(TypeMessages) : Recs[i].msg = "linear_relationship"

\* C18 as stated: every comparison has exactly one of the three type
\* messages among its recommendations, the one that goes with the type of
\* the best model.
C18_ExactlyOneTypeMessage ==
    (Compared /\ Len(models) > 0) =>
        /\ ~ret.threw
        /\ Cardinality(Places(TypeMessages)) = 1
        /\ TypeMessageGoesWithBestType

\* C18, amended: a comparison has exactly one of the three type messages
\* when the best model is linear, polynomial or random_forest, the one that
\* goes with that type whatever the other models are, and none when the best
\* model has any other type.
C18_OneTypeMessageForRegressionTypes ==
    (Compared /\ Len(models) > 0) =>
        /\ ~ret.threw
        /\ Cardinality(Places(TypeMessages))
              = (IF BestModel.type \in {"linear", "polynomial", "random_forest"}
                 THEN 1 ELSE 0)
        /\ TypeMessageGoesWithBestType

\* The best of three models is a random forest, a polynomial model is among
\* the others, and the message is the random forest's.
C18_Witness ==
    /\ Compared /\ Len(models) = 3 /\ ~ret.threw
    /\ BestModel.type = "random_forest"
    /\ \E i \in 1..3 : models[i].type = "polynomial"
    /\ \E i \in Places(TypeMessages) : Recs[i].msg = "complex_patterns"

\* C20: the rows of comparison_table are the rows of the input models in an
\* order in which two rows of equal rank_overall stand as their models stand
\* in the input.
C20_TiesKeepInputOrder ==
    (Compared /\ Len(models) > 0) =>
        /\ ~ret.threw
        /\ Len(Table) = Len(models)
        /\ \E p \in IndexPermutations[Len(models)] :
              /\ \A k \in 1..Len(Table) :
                    /\ Table[k].id = models[p[k]].id
                    /\ Table[k].rmse = models[p[k]].metrics.rmse
                    /\ Table[k].mae = models[p[k]].metrics.mae
                    /\ Table[k].r2 = models[p[k]].metrics.r2
              /\ \A k, l \in 1..Len(Table) :
                    (k < l /\ Table[k].rank_overall = Table[l].rank_overall) =>
                        p[k] < p[l]

\* The third model is best and the first two tie: the table is third, first,
\* second.
C20_Witness ==
    /\ Compared /\ Len(models) = 3 /\ DistinctIds(models) /\ ~ret.threw
    /\ Table[2].rank_overall = Table[3].rank_overall
    /\ Table[1].rank_overall < Table[2].rank_overall
    /\ Table[1].id = models[3].id
    /\ Table[2].id = models[1].id
    /\ Table[3].id = models[2].id

\* C19: compareModels, compareTwoModels, getModelVersionHistory and
\* createModelVersion leave the list of models they are called on, every
\* model in it (the parent of a new version included) and the overrides as
\* they were before the call.
C19_InputsUnchanged ==
    [][op' \in {"compareModels", "compareTwoModels",
                "getModelVersionHistory", "createModelVersion"} =>
          /\ models' = models
          /\ newModel' = newModel]_vars

\* Three models that are not in the order of their rmse were compared.
C19_Witness ==
    /\ Compared /\ Len(models) = 3 /\ ~ret.threw
    /\ ret.rankings.by_rmse /= Ids(models)
    /\ ret.models = models

\* The properties createModelVersion sets itself.
SetByCreateModelVersion == {"id", "version", "parent_id", "trainedAt"}

\* C21: of the new record, every property other than id, version, parent_id
\* and trainedAt is the one of the overrides when the overrides have it and
\* the one of the parent otherwise, and the record has no further property;
\* when the overrides carry no id, the id is the parent's id, "_v" and the
\* new version.
C21_FieldsFromOverridesThenParent ==
    op = "createModelVersion" =>
        LET parent == models[1]
            new == ret.value
        IN  /\ ~ret.threw
            /\ DOMAIN new = DOMAIN parent \cup DOMAIN newModel \cup SetByCreateModelVersion
            /\ \A f \in DOMAIN new \ SetByCreateModelVersion :
                  new[f] = IF f \in DOMAIN newModel THEN newModel[f] ELSE parent[f]
            /\ "id" \notin DOMAIN newModel =>
                  new.id = parent.id \o "_v" \o NumberText(new.version)

\* The overrides replace the parent's description and metrics and carry no
\* id; name and type come from the parent.
C21_Witness ==
    /\ op = "createModelVersion"
    /\ "id" \notin DOMAIN newModel
    /\ {"description", "metrics"} \subseteq DOMAIN newModel
    /\ "description" \in DOMAIN models[1]
    /\ "version" \in DOMAIN models[1]
    /\ newModel.description /= models[1].description
    /\ newModel.metrics /= models[1].metrics
    /\ ret.value.description = newModel.description
    /\ ret.value.metrics = newModel.metrics
    /\ ret.value.name = models[1].name
    /\ ret.value.id = models[1].id \o "_v" \o ToString(models[1].version + 1)

\* A train or import request has just stored its model.
StoredByTrainOrImport ==
    /\ op \in {"POST /train", "POST /models/import"}
    /\ ret.status = 200
    /\ "data" \in DOMAIN ret

\* C22: whenever a train or an import request stores its model, no model was
\* stored under that id before, so no stored model is replaced.
C22_StoredUnderNewId ==
    [][StoredByTrainOrImport' =>
            /\ ret'.data.id \notin DOMAIN store
            /\ \A id \in DOMAIN store : store'[id] = store[id]]_vars

\* rank_rmse + rank_mae + rank_r2 of a row (three times the average rank).
RankSum(row) == row.rank_rmse + row.rank_mae + row.rank_r2

\* C23: a row of the model named by best_overall has the smallest rank sum
\* of the table: no compared model has a strictly smaller average of
\* rank_rmse, rank_mae and rank_r2.
C23_BestHasLowestAverageRank ==
    (Compared /\ ~ret.threw) =>
        \E b \in 1..Len(Table) :
            /\ Table[b].id = ret.best_overall
            /\ \A i \in 1..Len(Table) : RankSum(Table[b]) <= RankSum(Table[i])

\* C24: for two models with rmse >= 0 and mae >= 0, compareTwoModels returns
\* a number (not NaN) as improvement_percentage of rmse, of mae and of r2,
\* also when the two models have the value 0 for a metric.
C24_ImprovementIsANumber ==
    (/\ op = "compareTwoModels"
     /\ \A i \in 1..2 : models[i].metrics.rmse >= 0 /\ models[i].metrics.mae >= 0) =>
        /\ ~ret.threw
        /\ \A k \in {"rmse", "mae", "r2"} : ~ret.improvement_percentage[k].nan

\* C25: getModelVersionHistory returns, for every list of models and every
\* id, a list in which no record appears twice and which is not longer than
\* the list of models; so GET /versions always answers with such a list.
C25_HistoryTerminatesWithoutRepeats ==
    op = "GET /versions" =>
        /\ ~Hangs
        /\ ret.status = 200
        /\ \A i, j \in 1..Len(ret.data) : i /= j => ret.data[i] /= ret.data[j]
        /\ Len(ret.data) <= Len(models)

\* The ids of the sessions of the data set id.
SessionsOf(database, id) ==
    {s.id : s \in {r \in Elements(database.sessions) : r.dataset_id = id}}

\* C26: deleteDataset(id) leaves no data set with that id, no session with
\* dataset_id = id and no message of a session that belonged to the data
\* set; the other data sets, sessions and messages stay as they were, in
\* their order.
C26_DeleteDatasetCascades ==
    [][DeleteDataset =>
        LET id == req'.id
            gone == SessionsOf(db, id)
        IN  /\ id \notin IdsOf(db'.datasets)
            /\ SessionsOf(db', id) = {}
            /\ \A m \in Elements(db'.messages) : m.session_id \notin gone
            /\ db'.datasets = Filter(db.datasets, Others(db.datasets, "id", id))
            /\ db'.sessions = Filter(db.sessions, Others(db.sessions, "dataset_id", id))
            /\ db'.messages = Filter(db.messages,
                                     {m \in Elements(db.messages) : m.session_id \notin gone})]_vars

\* C30: a data set that getDataset finds (createDataset returned it, in this
\* run or in the run that saved it) is found by getDataset after every step
\* that is not deleteDataset of its id: after createDataset, after each step
\* of the loadDatabase of the module load, and after each step of a
\* saveDatabase.
C30_CreatedDatasetStaysRetrievable ==
    [][\A d \in Elements(db.datasets) :
          getDataset(db, d.id) = [null |-> FALSE, value |-> d] =>
              \/ getDataset(db', d.id) = [null |-> FALSE, value |-> d]
              \/ DeleteDataset /\ req'.id = d.id]_vars

\* The metrics of a test set were computed.
MetricsComputed == op = "calculateMetrics" /\ ~ret.threw

ComparedByRoute == op = "POST /compare" /\ ret.status \notin {400, 404}

\* C28: the models POST /compare hands to compareModels are at least 2 and
\* have pairwise different ids, whatever body the route accepts.
C28_RouteComparesDistinctModels ==
    ComparedByRoute => Len(models) >= 2 /\ DistinctIds(models)

\* The two models have different ids and differ on rmse, on mae and on r2.
StrictlyDifferent(a, b) ==
    /\ a.id /= b.id
    /\ Rmse(a) /= Rmse(b)
    /\ Mae(a) /= Mae(b)
    /\ R2(a) /= R2(b)

\* C29: for two models with different ids that differ on each of rmse, mae
\* and r2, compareTwoModels(a, b) and compareTwoModels(b, a) name the same
\* winner, and the same winner of each metric.
C29_PairComparisonSymmetric ==
    (op = "compareTwoModels" /\ StrictlyDifferent(models[1], models[2])) =>
        LET swapped == compareTwoModels(models[2], models[1])
        IN  /\ ret.winner = swapped.winner
            /\ \A k \in {"rmse", "mae", "r2"} :
                  ret.metrics_comparison[k].winner = swapped.metrics_comparison[k].winner

\* The second argument wins rmse and r2 and the call names it; it is named
\* as well when it is the first argument.
C29_Witness ==
    /\ op = "compareTwoModels"
    /\ StrictlyDifferent(models[1], models[2])
    /\ ret.metrics_comparison.rmse.winner = models[2].id
    /\ ret.metrics_comparison.mae.winner = models[1].id
    /\ ret.metrics_comparison.r2.winner = models[2].id
    /\ ret.winner = models[2].id
    /\ compareTwoModels(models[2], models[1]).winner = models[2].id

====
